---- MODULE Spec2Model ----
(***************************************************************************)
(* Model of the image-pdf-ocr-suite OCR module (src/image_pdf_ocr/ocr.py): *)
(* the adaptive OCR step, the confidence filter, the overlay loop and the  *)
(* page pipelines create_searchable_pdf / extract_text_from_image_pdf.     *)
(*                                                                         *)
(* Numbers held in DataFrame cells are modelled as exact rationals         *)
(* [ok, num, den]; ok = FALSE is NaN (a missing or non-numeric cell).      *)
(* Strings are sequences of characters.                                    *)
(***************************************************************************)
EXTENDS Integers, Sequences, FiniteSets, TLC

(***************************************************************************)
(* Bounds of the model.                                                    *)
(***************************************************************************)
MaxWords == 2
MaxPages == 2
MaxFontCalls == 3

(***************************************************************************)
(* Program constants.                                                      *)
(***************************************************************************)
\* ocr.py:23  _AVERAGE_CONFIDENCE_THRESHOLD default ("65")
DefaultConfidenceThreshold == 65
\* ocr.py:24  _TEXT_RENDER_CONFIDENCE_THRESHOLD = 50.0
_TEXT_RENDER_CONFIDENCE_THRESHOLD == 50
\* ocr.py:25  _UPSCALE_FACTOR = 1.5, as the fraction UpscaleNum / UpscaleDen
UpscaleNum == 3
UpscaleDen == 2

(***************************************************************************)
(* Numeric cells.                                                          *)
(***************************************************************************)
NaN == [ok |-> FALSE, num |-> 0, den |-> 1]
Num(n) == [ok |-> TRUE, num |-> n, den |-> 1]

\* a >= b on floats: every comparison with NaN is False.
Ge(a, b) == a.ok /\ b.ok /\ a.num * b.den >= b.num * a.den
Gt(a, b) == a.ok /\ b.ok /\ a.num * b.den > b.num * a.den
Lt(a, b) == a.ok /\ b.ok /\ a.num * b.den < b.num * a.den
NumEq(a, b) == a.ok /\ b.ok /\ a.num * b.den = b.num * a.den

\* cell / scale, scale given as the fraction sn / sd.
DivScaleMutant(c, sn, sd) == IF c.ok THEN [ok |-> TRUE, num |-> c.num * sn, den |-> c.den * sd] ELSE c
DivScale(c, sn, sd) == IF c.ok THEN [ok |-> TRUE, num |-> c.num * sd, den |-> c.den * sn] ELSE c

\* a + b on floats: NaN when an operand is NaN.
Add(a, b) == IF a.ok /\ b.ok THEN [ok |-> TRUE, num |-> a.num * b.den + b.num * a.den, den |-> a.den * b.den] ELSE NaN

(***************************************************************************)
(* Strings.                                                                *)
(***************************************************************************)
IsSpace(ch) == ch \in {" ", "\n"}

RECURSIVE LStrip(_)
LStrip(s) == IF s # <<>> /\ IsSpace(Head(s)) THEN LStrip(Tail(s)) ELSE s

RECURSIVE RStrip(_)
RStrip(s) == IF s # <<>> /\ IsSpace(s[Len(s)]) THEN RStrip(SubSeq(s, 1, Len(s) - 1)) ELSE s

\* str.strip()
Strip(s) == RStrip(LStrip(s))

(***************************************************************************)
(* What the OCR engine (pytesseract.image_to_data, ocr.py:73-78) can       *)
(* return: a frame is a sequence of rows; every row has the TSV columns    *)
(* conf, text, left, top, width, height.  text.missing is a NaN text cell. *)
(***************************************************************************)
Box(l, t, w, h) == [left |-> l, top |-> t, width |-> w, height |-> h]
GoodBox == Box(Num(30), Num(60), Num(90), Num(30))
BadBox == Box(NaN, Num(60), Num(90), Num(30))
\* a word in the lower right part of a 300-dpi raster
FarBox == Box(Num(1500), Num(2400), Num(300), Num(60))
Text(s) == [missing |-> FALSE, s |-> s]
NoText == [missing |-> TRUE, s |-> <<>>]
Row(c, t, b) == [conf |-> c, text |-> t, left |-> b.left, top |-> b.top, width |-> b.width, height |-> b.height]

EngineRows ==
    { Row(Num(50), Text(<<" ", "a", " ">>), FarBox),
      Row(Num(49), Text(<<"a">>), GoodBox),
      Row(Num(0 - 1), Text(<<" ">>), GoodBox),
      Row(Num(0), Text(<<"a">>), GoodBox),
      Row(NaN, Text(<<"a">>), GoodBox),
      Row(Num(65), NoText, GoodBox),
      Row(Num(90), Text(<<"a">>), BadBox) }

EngineFrames == UNION { [1..n -> EngineRows] : n \in 0..MaxWords }

\* values of the OCR_CONFIDENCE_THRESHOLD environment variable (ocr.py:23)
Thresholds == { Num(0), Num(50), Num(DefaultConfidenceThreshold) }

(***************************************************************************)
(* Adaptive OCR helpers.                                                   *)
(***************************************************************************)
RECURSIVE SumConf(_)
SumConf(rows) == IF rows = <<>> THEN 0 ELSE Head(rows).conf.num + SumConf(Tail(rows))

IsValidConfMutant(row) == row.conf.ok
IsValidConf(row) == row.conf.ok /\ Ge(row.conf, Num(0))

\* ocr.py:81-93
_compute_average_confidenceMutant(frame) ==
    LET valid == SelectSeq(frame, IsValidConf)
    IN  IF valid = <<>> THEN NaN
        ELSE [ok |-> TRUE, num |-> SumConf(valid), den |-> Len(valid)]
_compute_average_confidence(frame) ==
    LET valid == SelectSeq(frame, IsValidConf)
    IN  IF valid = <<>> THEN Num(0)
        ELSE [ok |-> TRUE, num |-> SumConf(valid), den |-> Len(valid)]

\* ocr.py:96-110: scale is the fraction sn / sd; conf is left unscaled.
_prepare_frame(frame, sn, sd) ==
    [i \in 1..Len(frame) |->
        IF sn # sd
        THEN [frame[i] EXCEPT !.left = DivScale(@, sn, sd), !.top = DivScale(@, sn, sd),
                              !.width = DivScale(@, sn, sd), !.height = DivScale(@, sn, sd)]
        ELSE frame[i]]

AdaptiveOCRResult(frame, avg, used) ==
    [frame |-> frame, average_confidence |-> avg, used_preprocessing |-> used]

\* ocr.py:54: the raw pass is good enough, no preprocessing.
BaseIsEnoughMutant(base_average, thr) == Gt(base_average, thr)
BaseIsEnough(base_average, thr) == Ge(base_average, thr)

\* ocr.py:62: the preprocessed pass replaces the raw one.
ProcessedWinsMutant(average, base_average) == Ge(average, base_average)
ProcessedWins(average, base_average) == Gt(average, base_average)

\* ocr.py:42-52: the raw pass.
BasePass(raw) ==
    AdaptiveOCRResult(_prepare_frame(raw, 1, 1), _compute_average_confidence(raw), FALSE)

\* ocr.py:58-70: the preprocessed pass, compared with the raw one.
ChooseBest(best, processed) ==
    LET average == _compute_average_confidence(processed)
        processed_frame == _prepare_frame(processed, UpscaleNum, UpscaleDen)
    IN  IF ProcessedWins(average, best.average_confidence)
        THEN AdaptiveOCRResult(processed_frame, average, TRUE)
        ELSE best

\* ocr.py:39-70, as a function of what the engine returns for the raw image
\* and for the preprocessed image.
_perform_adaptive_ocr(raw, processed, thr) ==
    LET best == BasePass(raw)
    IN  IF BaseIsEnough(best.average_confidence, thr)
        THEN best
        ELSE ChooseBest(best, processed)

NoResult == AdaptiveOCRResult(<<>>, Num(0), FALSE)

\* every value _perform_adaptive_ocr can return, with the threshold it returns it under
AdaptiveResults ==
    { <<thr, _perform_adaptive_ocr(raw, processed, thr)>> :
        thr \in Thresholds, raw \in EngineFrames, processed \in EngineFrames }

(***************************************************************************)
(* Documents: a document is the sequence of its pages' rectangles          *)
(* (page.rect.width, page.rect.height, in points).                         *)
(***************************************************************************)
Rect(w, h) == [width |-> w, height |-> h]

\* A4 portrait and A4 landscape
PageRects == { Rect(595, 842), Rect(842, 595) }

\* what fitz.open(input_path) can return (ocr.py:401, 487)
Documents == UNION { [1..n -> PageRects] : n \in 0..MaxPages }

\* ocr.py:430: output_doc.new_page(width=..., height=...)
\* ocr.py:421: page.get_pixmap(dpi=300): the raster of a page of
\* width x height points has width * 300 / 72 by height * 300 / 72 pixels.
get_pixmap(rect, dpi) == [width |-> (rect.width * dpi) \div 72, height |-> (rect.height * dpi) \div 72]

new_pageMutant(width, height) == Rect(height, width)
new_page(width, height) == Rect(width, height)

(***************************************************************************)
(* Font files.  A path is the OCR_JPN_FONT override, a candidate file name *)
(* in a candidate directory, or a file a glob pattern matches below a      *)
(* candidate directory.  Directories and names are numbered in list order. *)
(***************************************************************************)
FontPath(stage, dir, name) == [stage |-> stage, dir |-> dir, name |-> name]
NoFont == FontPath("none", 0, 0)
EnvFontPath == FontPath("env", 0, 0)

\* ocr.py:237-242: for directory in directories: for name in candidate_files
ExactOrder == [k \in 1..4 |-> FontPath("exact", ((k - 1) \div 2) + 1, ((k - 1) % 2) + 1)]
\* ocr.py:244-252: for directory in directories: ... sorted(directory.rglob(pattern))
GlobOrder == [k \in 1..2 |-> FontPath("glob", k, 1)]

FontPaths == {EnvFontPath} \cup { ExactOrder[k] : k \in DOMAIN ExactOrder }
                          \cup { GlobOrder[k] : k \in DOMAIN GlobOrder }

RECURSIVE FirstExisting(_, _)
FirstExisting(paths, files) ==
    IF paths = <<>> THEN NoFont
    ELSE IF Head(paths) \in files THEN Head(paths)
    ELSE FirstExisting(Tail(paths), files)

\* ocr.py:197-252: the search, first match wins
SearchFontMutant(files, env_set) ==
    FirstExisting((IF env_set THEN <<EnvFontPath>> ELSE <<>>) \o GlobOrder \o ExactOrder, files)
SearchFont(files, env_set) ==
    FirstExisting((IF env_set THEN <<EnvFontPath>> ELSE <<>>) \o ExactOrder \o GlobOrder, files)

\* ocr.py:194: the cached path is reused when it still exists
CacheIsValidMutant(cache, files) == cache # NoFont
CacheIsValid(cache, files) == cache # NoFont /\ cache \in files

FontReturned(path) == [kind |-> "returned", path |-> path]
FontRaised == [kind |-> "raised", path |-> NoFont]
NoFontCall == [kind |-> "none", path |-> NoFont]

(***************************************************************************)
(* State.                                                                  *)
(***************************************************************************)
VARIABLES
    threshold,          \* _AVERAGE_CONFIDENCE_THRESHOLD (ocr.py:23)
    \* --- one call of _perform_adaptive_ocr, step by step ---
    ocr_pc,             \* position inside _perform_adaptive_ocr
    base_frame_raw,     \* local base_frame_raw (ocr.py:43)
    processed_frame_raw, \* local processed_frame_raw (ocr.py:58)
    best_result,        \* local best_result (ocr.py:47)
    processed_average,  \* local processed_average (ocr.py:59)
    result,             \* the value returned
    ocr_calls,          \* calls of _image_to_data made by this call
    preprocess_calls,   \* calls of _preprocess_for_ocr made by this call
    \* --- one call of create_searchable_pdf / extract_text_from_image_pdf ---
    fn,                 \* which of the two functions was called
    pc,                 \* position inside it
    tesseract_found,    \* what find_and_set_tesseract_path() returns
    input_exists,       \* input_path.exists()
    parent_exists,      \* output_path.parent.exists()
    output_is_dir,      \* output_path.exists() and output_path.is_dir()
    parent_created,     \* this call created output_path.parent
    output_written,     \* this call wrote a document at output_path
    input_doc,          \* "none", "open", "closed"
    output_doc,         \* "none", "open", "closed"
    total_pages,        \* input_doc.page_count
    index,              \* pages completed so far
    raster_page,        \* last page whose get_pixmap call was started (0: none)
    ocr_page,           \* last page whose OCR call was started (0: none)
    output_pages,       \* pages of output_doc
    page_rects,         \* page.rect of every page of input_doc, in page order
    output_rects,       \* width and height of every page of output_doc, in page order
    ocr_result,         \* ocr_result of the page being processed
    filtered,           \* filtered frame of the page being processed
    row_i,              \* rows of filtered already iterated
    placed,             \* labels of the rows whose insert_text succeeded, in order
    place_failure,      \* last exception insert_text raised on this page ("none": none)
    messages,           \* messages handed to _dispatch_progress, in order
    texts,              \* local texts of extract_text_from_image_pdf
    page_texts,         \* what image_to_string returned for every page OCR'd so far
    outcome,            \* how the call ended
    returned,           \* the string extract_text_from_image_pdf returned
    cancel_event,       \* the caller's cancellation token is set
    cancel_boundary,    \* the page boundary (pages completed) at which it was set; -1: none
    \* --- the calls of _find_japanese_font_path made by the process ---
    _FONT_PATH_CACHE,   \* module global _FONT_PATH_CACHE (ocr.py:26)
    font_files,         \* the font paths that exist in the file system
    ocr_jpn_font,       \* the environment variable OCR_JPN_FONT is set (to EnvFontPath)
    font_result,        \* what the last call returned or raised
    font_searched,      \* the last call went past the cache test and searched
    font_calls          \* calls made so far

VARIABLES
    \* --- one call of _build_progress_message ---
    progress_pc,        \* "start" before the call, "done" after it
    progress_current,   \* argument current
    progress_total,     \* argument total
    progress_elapsed,   \* time.perf_counter() - start_time, in half seconds
    remaining_text      \* local remaining_text, or the message without an estimate

\* --- the HTTP endpoint /convert (backend/app/main.py) ---
VARIABLES
    http_pc,            \* position of the handler convert_pdf: "idle" before a request
    http_request,       \* number of the request being handled (requests so far)
    content_type,       \* file.content_type of the request
    tmp_files,          \* temporary files that exist: <<request, "input" | "output">>
    http_created,       \* temporary files the handler created for this request
    background_tasks,   \* BackgroundTasks of the request: files to unlink, in order
    http_status         \* status of the response, 0 while there is none

\* --- one ProcessingWorkspace of the desktop application (ocr_desktop_app.py) ---
VARIABLES
    _worker,            \* self._worker: 0 for None, else the number of the thread
    _cancel_event,      \* self._cancel_event: 0 for None, else the number of the event
    events_set,         \* the events whose flag is set
    alive,              \* the worker threads that are alive
    worker_pc,          \* position of every worker thread in wrapper()
    task_event,         \* the cancel_event argument a worker's task was given, -1 before
    task_outcome,       \* how a worker's task ended, "none" before
    ui_pc,              \* position of the UI thread: "idle" between two handlers
    busy,               \* the last argument of _set_busy
    after_queue,        \* callbacks _set_busy(False) waiting in root.after
    ui_errors,          \* the handlers that raised AttributeError on None
    runs                \* threading.Event() calls so far; a run has the number of its event

ocr_vars == <<ocr_pc, base_frame_raw, processed_frame_raw, best_result, processed_average, result, ocr_calls, preprocess_calls>>
fs_vars == <<parent_exists, output_is_dir, parent_created, output_written>>
env_vars == <<threshold, fn, tesseract_found, input_exists>>
doc_vars == <<input_doc, output_doc, total_pages, output_pages, page_rects, output_rects>>
page_vars == <<ocr_result, filtered, row_i, placed, place_failure>>
cancel_vars == <<cancel_event, cancel_boundary>>
run_vars == <<pc, index, raster_page, ocr_page, messages, texts, page_texts, outcome, returned>>
pipe_vars == <<fs_vars, doc_vars, page_vars, cancel_vars, run_vars, fn, tesseract_found, input_exists>>
font_vars == <<_FONT_PATH_CACHE, font_files, ocr_jpn_font, font_result, font_searched, font_calls>>
core_vars == <<threshold, ocr_vars, font_vars, pipe_vars>>
progress_vars == <<progress_pc, progress_current, progress_total, progress_elapsed, remaining_text>>
http_vars == <<http_pc, http_request, content_type, tmp_files, http_created, background_tasks, http_status>>
desk_vars == <<_worker, _cancel_event, events_set, alive, worker_pc, task_event, task_outcome,
               ui_pc, busy, after_queue, ui_errors, runs>>
aux_vars == <<progress_vars, http_vars, desk_vars>>
vars == <<core_vars, aux_vars>>

(***************************************************************************)
(* _perform_adaptive_ocr step by step (specification SpecOCR).             *)
(***************************************************************************)
OcrIdle ==
    /\ ocr_pc = "start"
    /\ base_frame_raw = <<>>
    /\ processed_frame_raw = <<>>
    /\ best_result = NoResult
    /\ processed_average = NaN
    /\ result = NoResult
    /\ ocr_calls = 0
    /\ preprocess_calls = 0

\* ocr.py:42-55: OCR of the raw image; return it when it is good enough.
OcrRaw ==
    /\ ocr_pc = "start"
    /\ \E frame \in EngineFrames :
        LET best == BasePass(frame)
        IN  /\ base_frame_raw' = frame
            /\ best_result' = best
            /\ IF BaseIsEnough(best.average_confidence, threshold)
               THEN ocr_pc' = "returned" /\ result' = best
               ELSE ocr_pc' = "preprocess" /\ result' = result
    /\ ocr_calls' = ocr_calls + 1
    /\ UNCHANGED <<processed_frame_raw, processed_average, preprocess_calls, threshold, aux_vars, font_vars, pipe_vars>>

\* ocr.py:57: _preprocess_for_ocr(base_image)
Preprocess ==
    /\ ocr_pc = "preprocess"
    /\ preprocess_calls' = preprocess_calls + 1
    /\ ocr_pc' = "ocr_processed"
    /\ UNCHANGED <<base_frame_raw, processed_frame_raw, best_result, processed_average, result,
                   ocr_calls, threshold, aux_vars, font_vars, pipe_vars>>

\* ocr.py:58-70: OCR of the preprocessed image, then the choice.
OcrProcessed ==
    /\ ocr_pc = "ocr_processed"
    /\ \E frame \in EngineFrames :
        /\ processed_frame_raw' = frame
        /\ processed_average' = _compute_average_confidence(frame)
        /\ result' = ChooseBest(best_result, frame)
    /\ ocr_calls' = ocr_calls + 1
    /\ ocr_pc' = "returned"
    /\ UNCHANGED <<base_frame_raw, best_result, preprocess_calls, threshold, aux_vars, font_vars, pipe_vars>>

\* pytesseract raises inside _image_to_data (ocr.py:43, 58): no value is returned.
OcrEngineRaises ==
    /\ ocr_pc \in {"start", "ocr_processed"}
    /\ ocr_calls' = ocr_calls + 1
    /\ ocr_pc' = "raised"
    /\ UNCHANGED <<base_frame_raw, processed_frame_raw, best_result, processed_average, result,
                   preprocess_calls, threshold, aux_vars, font_vars, pipe_vars>>

(***************************************************************************)
(* _find_japanese_font_path call by call (specification SpecFont).         *)
(***************************************************************************)
FontIdle ==
    /\ _FONT_PATH_CACHE = NoFont
    /\ font_result = NoFontCall
    /\ font_searched = FALSE
    /\ font_calls = 0

\* ocr.py:189-257: the body of _find_japanese_font_path
FontCall ==
    /\ font_calls' = font_calls + 1
    /\ IF CacheIsValid(_FONT_PATH_CACHE, font_files)
       THEN /\ font_result' = FontReturned(_FONT_PATH_CACHE)
            /\ font_searched' = FALSE
            /\ UNCHANGED _FONT_PATH_CACHE
       ELSE LET found == SearchFont(font_files, ocr_jpn_font)
            IN  /\ font_searched' = TRUE
                /\ IF found # NoFont
                   THEN /\ _FONT_PATH_CACHE' = found
                        /\ font_result' = FontReturned(found)
                   ELSE /\ font_result' = FontRaised
                        /\ UNCHANGED _FONT_PATH_CACHE
    /\ UNCHANGED <<font_files, ocr_jpn_font>>

\* one call of _find_japanese_font_path by the process
_find_japanese_font_path ==
    /\ font_calls < MaxFontCalls
    /\ FontCall
    /\ UNCHANGED <<threshold, aux_vars, ocr_vars, pipe_vars>>

\* between two calls a font file is installed
FontInstalled ==
    /\ \E path \in FontPaths \ font_files : font_files' = font_files \cup {path}
    /\ UNCHANGED <<_FONT_PATH_CACHE, ocr_jpn_font, font_result, font_searched, font_calls,
                   threshold, aux_vars, ocr_vars, pipe_vars>>

\* between two calls a font file is removed
FontRemoved ==
    /\ \E path \in font_files : font_files' = font_files \ {path}
    /\ UNCHANGED <<_FONT_PATH_CACHE, ocr_jpn_font, font_result, font_searched, font_calls,
                   threshold, aux_vars, ocr_vars, pipe_vars>>

(***************************************************************************)
(* Overlay helpers.                                                        *)
(***************************************************************************)
\* ocr.py:119-120: the rows kept, by label (position in the frame).
KeptLabelsMutant(frame, thr) == { i \in DOMAIN frame : Gt(frame[i].conf, thr) }
KeptLabels(frame, thr) == { i \in DOMAIN frame : Ge(frame[i].conf, thr) }

\* ocr.py:122: fillna("") on the text column.
FillNa(text) == IF text.missing THEN Text(<<>>) ELSE text

RECURSIVE LabelsInOrder(_, _)
LabelsInOrder(n, keep) ==
    IF n = 0 THEN <<>>
    ELSE LabelsInOrder(n - 1, keep) \o (IF n \in keep THEN <<n>> ELSE <<>>)

\* ocr.py:113-123: the filtered frame, each row with the label it had in frame.
_filter_frame_by_confidence(frame, thr) ==
    LET labels == LabelsInOrder(Len(frame), KeptLabels(frame, thr))
    IN  [k \in 1..Len(labels) |->
            [label |-> labels[k],
             row |-> [frame[labels[k]] EXCEPT !.text = FillNa(@)]]]

\* ocr.py:143-156: None, None, None (ok = FALSE) when a coordinate is NaN.
_extract_coordinates(row) ==
    IF row.left.ok /\ row.top.ok /\ row.height.ok
    THEN [ok |-> TRUE, x |-> row.left, y |-> row.top, h |-> row.height]
    ELSE [ok |-> FALSE, x |-> NaN, y |-> NaN, h |-> NaN]

\* ocr.py:440-441: the insertion point handed to insert_text, (x, y + h).
insert_text_point(row) ==
    LET c == _extract_coordinates(row)
    IN  [x |-> c.x, y |-> Add(c.y, c.h)]

\* ocr.py:434-436: the text handed to insert_text; empty text is skipped.
WordText(row) == Strip(row.text.s)

\* ocr.py:434-439: the row reaches insert_text.
IsPlaceableMutant(row) == _extract_coordinates(row).ok
IsPlaceable(row) == WordText(row) # <<>> /\ _extract_coordinates(row).ok

\* ocr.py:440-450: what insert_text can do: succeed, raise RuntimeError
\* (MuPDF errors), or raise another exception (ValueError, OSError, ...).
InsertTextOutcomes == {"ok", "RuntimeError", "OtherError"}

\* ocr.py:448: the exceptions of insert_text the loop swallows.
IsSwallowed(exc) == exc = "RuntimeError"

(***************************************************************************)
(* Outcomes of a call.                                                     *)
(***************************************************************************)
Running == [kind |-> "running", exc |-> "none", msg |-> "none"]
Returned == [kind |-> "returned", exc |-> "none", msg |-> "none"]
Raised(exc, msg) == [kind |-> "raised", exc |-> exc, msg |-> msg]

InfoMessage == [kind |-> "info", current |-> 0, total |-> 0]
\* ocr.py:174-186
_build_progress_messageMutant(current, total) == [kind |-> "page", current |-> current - 1, total |-> total]
_build_progress_message(current, total) == [kind |-> "page", current |-> current, total |-> total]

\* what pytesseract.image_to_string (ocr.py:511) can return for a page
PageTexts == { <<>>, <<"a">>, <<" ", "a", "\n">> }

\* ocr.py:512: f"--- ページ {index} ---\n{page_text.strip()}\n"
PageEntryMutant(i, page_text) == <<"--- ", ToString(i), " ---", "\n">> \o page_text \o <<"\n">>
PageEntry(i, page_text) == <<"--- ", ToString(i), " ---", "\n">> \o Strip(page_text) \o <<"\n">>

RECURSIVE Join(_)
Join(ts) ==
    IF ts = <<>> THEN <<>>
    ELSE IF Len(ts) = 1 THEN ts[1]
    ELSE ts[1] \o <<"\n">> \o Join(Tail(ts))

\* ocr.py:521: "\n".join(texts).strip() + "\n"
JoinTexts(ts) == Strip(Join(ts)) \o <<"\n">>

\* ocr.py:460: fitz.Document.save refuses a document without pages
\* (ValueError "cannot save with zero pages"); otherwise the filesystem decides.
SaveOutcomes(pages) ==
    IF pages = 0 THEN {"Exception"} ELSE {"ok", "PermissionError", "Exception"}

(***************************************************************************)
(* _format_duration and _build_progress_message (specification             *)
(* SpecProgress).  A duration is a non-negative rational number of seconds *)
(* or infinite; a text is a sequence of characters.                        *)
(***************************************************************************)
Duration(n, d) == [finite |-> TRUE, num |-> n, den |-> d]
Infinite == [finite |-> FALSE, num |-> 0, den |-> 1]

\* round(): to the nearest integer, a tie to the even one
RoundHalfEven(n, d) ==
    LET q == n \div d
        twice == 2 * (n % d)
    IN  IF twice < d THEN q
        ELSE IF twice > d THEN q + 1
        ELSE IF q % 2 = 0 THEN q ELSE q + 1

Max(a, b) == IF a >= b THEN a ELSE b

RECURSIVE Digits(_)
Digits(n) == IF n < 10 THEN <<ToString(n)>> ELSE Digits(n \div 10) \o <<ToString(n % 10)>>

\* f"{n:02d}"
TwoDigits(n) == IF n < 10 THEN <<"0">> \o Digits(n) ELSE Digits(n)

\* "不明"
UnknownDuration == <<"unknown">>
\* "進捗: ページ数が不明です"
UnknownPages == <<"unknown pages">>

\* ocr.py:159-171
_format_durationMutant(seconds) ==
    IF ~seconds.finite THEN UnknownDuration
    ELSE LET total_seconds == Max(0, RoundHalfEven(seconds.num, seconds.den))
             minutes == total_seconds \div 60
             sec == total_seconds % 60
         IN  TwoDigits(minutes) \o <<":">> \o TwoDigits(sec)
_format_duration(seconds) ==
    IF ~seconds.finite THEN UnknownDuration
    ELSE LET total_seconds == Max(0, RoundHalfEven(seconds.num, seconds.den))
             minutes0 == total_seconds \div 60
             sec == total_seconds % 60
             hours == minutes0 \div 60
             minutes == minutes0 % 60
         IN  IF hours > 0
             THEN TwoDigits(hours) \o <<":">> \o TwoDigits(minutes) \o <<":">> \o TwoDigits(sec)
             ELSE TwoDigits(minutes) \o <<":">> \o TwoDigits(sec)

\* ocr.py:180-183: elapsed is given in half seconds
RemainingEstimate(current, total, elapsed) ==
    LET remaining_pages == Max(total - current, 0)
    IN  IF current = 0
        THEN \* float("inf") * remaining_pages: inf, or nan when no page remains
             Infinite
        ELSE Duration(elapsed * remaining_pages, 2 * current)

\* ocr.py:174-186: the estimate part of the message
RemainingText(current, total, elapsed) ==
    IF total <= 0 THEN UnknownPages
    ELSE _format_duration(RemainingEstimate(current, total, elapsed))

\* values of time.perf_counter() - start_time, in half seconds
ElapsedValues == {0, 1, 3, 5, 119, 120, 121, 7199, 7200, 14523}

ProgressIdle ==
    /\ progress_pc = "start"
    /\ progress_current = 0
    /\ progress_total = 0
    /\ progress_elapsed = 0
    /\ remaining_text = <<>>

\* a call of _build_progress_message with arguments current and total
BuildProgressMessage ==
    /\ progress_pc = "start"
    /\ progress_pc' = "done"
    /\ remaining_text' = RemainingText(progress_current, progress_total, progress_elapsed)
    /\ UNCHANGED <<progress_current, progress_total, progress_elapsed, core_vars, http_vars, desk_vars>>

(***************************************************************************)
(* The HTTP endpoint POST /convert, backend/app/main.py:28-55              *)
(* (specification SpecHTTP).  Requests are handled one after another; the  *)
(* temporary directory is shared by all of them.                           *)
(***************************************************************************)
MaxRequests == 3

ContentTypes == {"application/pdf", "text/plain", "image/png"}

\* what create_searchable_pdf does for the handler: it returns, or raises
\* FileNotFoundError or OCRConversionError
ConvertOutcomes == {"ok", "FileNotFoundError", "OCRConversionError"}

HttpIdle ==
    /\ http_pc = "idle"
    /\ http_request = 0
    /\ content_type = "application/pdf"
    /\ tmp_files = {}
    /\ http_created = {}
    /\ background_tasks = <<>>
    /\ http_status = 0

\* main.py:28-29: a request arrives
convert_pdf ==
    /\ http_pc \in {"idle", "done"}
    /\ http_request < MaxRequests
    /\ http_request' = http_request + 1
    /\ content_type' \in ContentTypes
    /\ http_pc' = "check"
    /\ http_created' = {}
    /\ background_tasks' = <<>>
    /\ http_status' = 0
    /\ UNCHANGED <<tmp_files, core_vars, progress_vars, desk_vars>>

\* main.py:30-31
CheckContentType ==
    /\ http_pc = "check"
    /\ IF content_type \notin {"application/pdf"}
       THEN http_status' = 400 /\ http_pc' = "done"
       ELSE http_status' = http_status /\ http_pc' = "input_tmp"
    /\ UNCHANGED <<http_request, content_type, tmp_files, http_created, background_tasks,
                   core_vars, progress_vars, desk_vars>>

\* main.py:34-36 (role "input") and 38-39 (role "output"):
\* tempfile.NamedTemporaryFile(delete=False) leaves the file behind
NamedTemporaryFile(role, next_pc) ==
    /\ tmp_files' = tmp_files \cup {<<http_request, role>>}
    /\ http_created' = http_created \cup {role}
    /\ http_pc' = next_pc
    /\ UNCHANGED <<http_request, content_type, background_tasks, http_status, core_vars, progress_vars, desk_vars>>

CreateInputTmp == http_pc = "input_tmp" /\ NamedTemporaryFile("input", "output_tmp")

CreateOutputTmp == http_pc = "output_tmp" /\ NamedTemporaryFile("output", "convert")

\* main.py:41 and the handlers of main.py:52-55
Convert ==
    /\ http_pc = "convert"
    /\ \E r \in ConvertOutcomes :
        CASE r = "ok" -> http_pc' = "add_tasks" /\ http_status' = http_status
          [] r = "FileNotFoundError" -> http_pc' = "done" /\ http_status' = 400
          [] OTHER -> http_pc' = "done" /\ http_status' = 500
    /\ UNCHANGED <<http_request, content_type, tmp_files, http_created, background_tasks,
                   core_vars, progress_vars, desk_vars>>

\* main.py:43-44
AddTasks ==
    /\ http_pc = "add_tasks"
    /\ background_tasks' = <<"input", "output">>
    /\ http_pc' = "respond"
    /\ UNCHANGED <<http_request, content_type, tmp_files, http_created, http_status,
                   core_vars, progress_vars, desk_vars>>

\* main.py:46-51: the response is sent, its background tasks run after it
SendResponse ==
    /\ http_pc = "respond"
    /\ http_status' = 200
    /\ http_pc' = "background"
    /\ UNCHANGED <<http_request, content_type, tmp_files, http_created, background_tasks,
                   core_vars, progress_vars, desk_vars>>

\* main.py:43-44: Path.unlink(missing_ok=True), one task at a time
RunBackgroundTask ==
    /\ http_pc = "background"
    /\ IF background_tasks = <<>>
       THEN http_pc' = "done" /\ UNCHANGED <<tmp_files, background_tasks>>
       ELSE /\ tmp_files' = tmp_files \ {<<http_request, Head(background_tasks)>>}
            /\ background_tasks' = Tail(background_tasks)
            /\ http_pc' = http_pc
    /\ UNCHANGED <<http_request, content_type, http_created, http_status, core_vars, progress_vars, desk_vars>>

(***************************************************************************)
(* One ProcessingWorkspace, ocr_desktop_app.py:281-291 and 327-401         *)
(* (specification SpecDesk).  The UI thread runs one handler at a time; a  *)
(* worker thread runs wrapper().  Every read and every write of            *)
(* self._worker and self._cancel_event is a step of its own, so that the   *)
(* two threads interleave as the interpreter lets them.  A start request   *)
(* is a call of _start_conversion or _start_extraction, a cancel request a *)
(* call of _cancel_running_task.                                           *)
(***************************************************************************)
MaxRuns == 2

Runs == 1..MaxRuns

\* ocr_desktop_app.py:404-482: completed, cancelled, a typed error
\* (FileNotFoundError, OCRConversionError), an unexpected exception
TaskOutcomes == {"completed", "cancelled", "error", "unexpected error"}

\* ocr_desktop_app.py:54-55
DeskIdle ==
    /\ _worker = 0
    /\ _cancel_event = 0
    /\ events_set = {}
    /\ alive = {}
    /\ worker_pc = [r \in Runs |-> "none"]
    /\ task_event = [r \in Runs |-> 0 - 1]
    /\ task_outcome = [r \in Runs |-> "none"]
    /\ ui_pc = "idle"
    /\ busy = FALSE
    /\ after_queue = 0
    /\ ui_errors = {}
    /\ runs = 0

\* ocr_desktop_app.py:346, 375: the first read of self._worker
_start_conversion ==
    /\ ui_pc = "idle"
    /\ runs < MaxRuns
    /\ ui_pc' = (IF _worker = 0 THEN "start_validate" ELSE "start_is_alive")
    /\ UNCHANGED <<_worker, _cancel_event, events_set, alive, worker_pc, task_event, task_outcome, busy, after_queue, ui_errors, runs,
                   core_vars, progress_vars, http_vars>>

\* ocr_desktop_app.py:346-347, 375-376: self._worker.is_alive(), the second read
StartIsAlive ==
    /\ ui_pc = "start_is_alive"
    /\ IF _worker = 0
       THEN ui_errors' = ui_errors \cup {"_start_conversion"} /\ ui_pc' = "idle"
       ELSE /\ ui_pc' = (IF _worker \in alive THEN "idle" ELSE "start_validate")
            /\ ui_errors' = ui_errors
    /\ UNCHANGED <<_worker, _cancel_event, events_set, alive, worker_pc, task_event, task_outcome, busy, after_queue, runs,
                   core_vars, progress_vars, http_vars>>

\* ocr_desktop_app.py:349-367, 378-396: the paths are validated, the event of
\* the run is created
StartCreateEvent ==
    /\ ui_pc = "start_validate"
    /\ \E valid \in BOOLEAN :
        IF valid
        THEN /\ runs' = runs + 1
             /\ _cancel_event' = runs + 1
             /\ ui_pc' = "start_busy"
        ELSE /\ ui_pc' = "idle"
             /\ UNCHANGED <<runs, _cancel_event>>
    /\ UNCHANGED <<_worker, events_set, alive, worker_pc, task_event, task_outcome, busy, after_queue, ui_errors,
                   core_vars, progress_vars, http_vars>>

\* ocr_desktop_app.py:368-369, 397-398
StartSetBusy ==
    /\ ui_pc = "start_busy"
    /\ busy' = TRUE
    /\ ui_pc' = "start_thread"
    /\ UNCHANGED <<_worker, _cancel_event, events_set, alive, worker_pc, task_event, task_outcome, after_queue, ui_errors, runs,
                   core_vars, progress_vars, http_vars>>

\* ocr_desktop_app.py:290: self._worker = threading.Thread(...)
StartAssignWorker ==
    /\ ui_pc = "start_thread"
    /\ _worker' = runs
    /\ worker_pc' = [worker_pc EXCEPT ![runs] = "created"]
    /\ ui_pc' = "start_start"
    /\ UNCHANGED <<_cancel_event, events_set, alive, task_event, task_outcome, busy, after_queue, ui_errors, runs,
                   core_vars, progress_vars, http_vars>>

\* ocr_desktop_app.py:291: self._worker.start()
StartThread ==
    /\ ui_pc = "start_start"
    /\ ui_pc' = "idle"
    /\ IF _worker = 0
       THEN /\ ui_errors' = ui_errors \cup {"_run_in_thread"}
            /\ UNCHANGED <<alive, worker_pc>>
       ELSE /\ alive' = alive \cup {_worker}
            /\ worker_pc' = [worker_pc EXCEPT ![_worker] = "task"]
            /\ ui_errors' = ui_errors
    /\ UNCHANGED <<_worker, _cancel_event, events_set, task_event, task_outcome, busy, after_queue, runs,
                   core_vars, progress_vars, http_vars>>

\* ocr_desktop_app.py:328: "if self._cancel_event", the first read
_cancel_running_task ==
    /\ ui_pc = "idle"
    /\ ui_pc' = (IF _cancel_event = 0 THEN "idle" ELSE "cancel_is_set")
    /\ UNCHANGED <<_worker, _cancel_event, events_set, alive, worker_pc, task_event, task_outcome, busy, after_queue, ui_errors, runs,
                   core_vars, progress_vars, http_vars>>

\* ocr_desktop_app.py:328: "not self._cancel_event.is_set()", the second read
CancelIsSet ==
    /\ ui_pc = "cancel_is_set"
    /\ IF _cancel_event = 0
       THEN ui_errors' = ui_errors \cup {"_cancel_running_task"} /\ ui_pc' = "idle"
       ELSE /\ ui_pc' = (IF _cancel_event \in events_set THEN "idle" ELSE "cancel_set")
            /\ ui_errors' = ui_errors
    /\ UNCHANGED <<_worker, _cancel_event, events_set, alive, worker_pc, task_event, task_outcome, busy, after_queue, runs,
                   core_vars, progress_vars, http_vars>>

\* ocr_desktop_app.py:329: self._cancel_event.set(), the third read
CancelSet ==
    /\ ui_pc = "cancel_set"
    /\ ui_pc' = "idle"
    /\ IF _cancel_event = 0
       THEN ui_errors' = ui_errors \cup {"_cancel_running_task"} /\ events_set' = events_set
       ELSE events_set' = events_set \cup {_cancel_event} /\ ui_errors' = ui_errors
    /\ UNCHANGED <<_worker, _cancel_event, alive, worker_pc, task_event, task_outcome, busy, after_queue, runs,
                   core_vars, progress_vars, http_vars>>

\* ocr_desktop_app.py:288, 544-549: the UI thread runs a waiting _set_busy(False)
SetBusyFalse ==
    /\ ui_pc = "idle"
    /\ after_queue > 0
    /\ after_queue' = after_queue - 1
    /\ busy' = FALSE
    /\ UNCHANGED <<_worker, _cancel_event, events_set, alive, worker_pc, task_event, task_outcome, ui_pc, ui_errors, runs,
                   core_vars, progress_vars, http_vars>>

\* ocr_desktop_app.py:284, 407-412, 447-452: the task starts and hands
\* self._cancel_event, as it is now, to the library
TaskBegin(r) ==
    /\ r \in alive
    /\ worker_pc[r] = "task"
    /\ task_event' = [task_event EXCEPT ![r] = _cancel_event]
    /\ worker_pc' = [worker_pc EXCEPT ![r] = "running"]
    /\ UNCHANGED <<_worker, _cancel_event, events_set, alive, task_outcome, ui_pc, busy, after_queue, ui_errors, runs,
                   core_vars, progress_vars, http_vars>>

\* ocr_desktop_app.py:413-442, 453-482: the task ends; it ends cancelled only
\* when the event it was given is set
TaskEnd(r) ==
    /\ r \in alive
    /\ worker_pc[r] = "running"
    /\ \E o \in TaskOutcomes :
        /\ o = "cancelled" => task_event[r] \in events_set
        /\ task_outcome' = [task_outcome EXCEPT ![r] = o]
    /\ worker_pc' = [worker_pc EXCEPT ![r] = "clear_worker"]
    /\ UNCHANGED <<_worker, _cancel_event, events_set, alive, task_event, ui_pc, busy, after_queue, ui_errors, runs,
                   core_vars, progress_vars, http_vars>>

\* ocr_desktop_app.py:286
ClearWorker(r) ==
    /\ r \in alive
    /\ worker_pc[r] = "clear_worker"
    /\ _worker' = 0
    /\ worker_pc' = [worker_pc EXCEPT ![r] = "clear_event"]
    /\ UNCHANGED <<_cancel_event, events_set, alive, task_event, task_outcome, ui_pc, busy, after_queue, ui_errors, runs,
                   core_vars, progress_vars, http_vars>>

\* ocr_desktop_app.py:287
ClearEvent(r) ==
    /\ r \in alive
    /\ worker_pc[r] = "clear_event"
    /\ _cancel_event' = 0
    /\ worker_pc' = [worker_pc EXCEPT ![r] = "notify"]
    /\ UNCHANGED <<_worker, events_set, alive, task_event, task_outcome, ui_pc, busy, after_queue, ui_errors, runs,
                   core_vars, progress_vars, http_vars>>

\* ocr_desktop_app.py:288: self._notify(lambda: self._set_busy(False))
NotifyIdle(r) ==
    /\ r \in alive
    /\ worker_pc[r] = "notify"
    /\ after_queue' = after_queue + 1
    /\ worker_pc' = [worker_pc EXCEPT ![r] = "return"]
    /\ UNCHANGED <<_worker, _cancel_event, events_set, alive, task_event, task_outcome, ui_pc, busy, ui_errors, runs,
                   core_vars, progress_vars, http_vars>>

\* ocr_desktop_app.py:282-288: wrapper() returns, the thread ends
ThreadEnds(r) ==
    /\ r \in alive
    /\ worker_pc[r] = "return"
    /\ alive' = alive \ {r}
    /\ worker_pc' = [worker_pc EXCEPT ![r] = "ended"]
    /\ UNCHANGED <<_worker, _cancel_event, events_set, task_event, task_outcome, ui_pc, busy, after_queue, ui_errors, runs,
                   core_vars, progress_vars, http_vars>>

AuxIdle == ProgressIdle /\ HttpIdle /\ DeskIdle

(***************************************************************************)
(* Initial states.                                                         *)
(***************************************************************************)
PipeIdle ==
    /\ pc = "check_tesseract"
    /\ parent_created = FALSE
    /\ output_written = FALSE
    /\ input_doc = "none"
    /\ output_doc = "none"
    /\ total_pages = 0
    /\ index = 0
    /\ raster_page = 0
    /\ ocr_page = 0
    /\ output_pages = 0
    /\ page_rects = <<>>
    /\ output_rects = <<>>
    /\ ocr_result = NoResult
    /\ filtered = <<>>
    /\ row_i = 0
    /\ placed = <<>>
    /\ place_failure = "none"
    /\ messages = <<>>
    /\ texts = <<>>
    /\ page_texts = <<>>
    /\ outcome = Running
    /\ returned = <<>>
    /\ cancel_event = FALSE
    /\ cancel_boundary = 0 - 1

\* a call of create_searchable_pdf or extract_text_from_image_pdf is about to start
Init ==
    \* OCR_CONFIDENCE_THRESHOLD is not set
    /\ threshold = Num(DefaultConfidenceThreshold)
    /\ OcrIdle
    /\ PipeIdle
    /\ FontIdle
    /\ AuxIdle
    \* a machine without any of the fonts, or with all of them
    /\ font_files \in {{}, FontPaths}
    /\ ocr_jpn_font = FALSE
    /\ fn \in {"create_searchable_pdf", "extract_text_from_image_pdf"}
    /\ tesseract_found \in BOOLEAN
    /\ input_exists \in BOOLEAN
    /\ parent_exists \in BOOLEAN
    /\ output_is_dir \in BOOLEAN
    /\ output_is_dir => parent_exists
    \* extract_text_from_image_pdf takes no output path
    /\ fn = "extract_text_from_image_pdf" => parent_exists /\ ~output_is_dir

\* a call of _perform_adaptive_ocr is about to start
InitOCR ==
    /\ threshold \in Thresholds
    /\ OcrIdle
    /\ PipeIdle
    /\ FontIdle
    /\ AuxIdle
    /\ font_files = FontPaths
    /\ ocr_jpn_font = FALSE
    /\ fn = "create_searchable_pdf"
    /\ tesseract_found = TRUE
    /\ input_exists = TRUE
    /\ parent_exists = TRUE
    /\ output_is_dir = FALSE

\* the process starts: no call of _find_japanese_font_path was made yet
InitFont ==
    /\ threshold = Num(DefaultConfidenceThreshold)
    /\ OcrIdle
    /\ PipeIdle
    /\ FontIdle
    /\ AuxIdle
    /\ font_files \in SUBSET FontPaths
    /\ ocr_jpn_font \in BOOLEAN
    /\ fn = "create_searchable_pdf"
    /\ tesseract_found = TRUE
    /\ input_exists = TRUE
    /\ parent_exists = TRUE
    /\ output_is_dir = FALSE

(***************************************************************************)
(* create_searchable_pdf (ocr.py:381-468) and extract_text_from_image_pdf  *)
(* (ocr.py:471-521), step by step.                                         *)
(***************************************************************************)
IsCreate == fn = "create_searchable_pdf"

\* extract_text_to_file (ocr.py:524-544) calls extract_text_from_image_pdf
\* first, then _prepare_output_path, then write_text.
IsToFile == fn = "extract_text_to_file"

\* the call raises before a document is open
Reject(exc, msg) ==
    /\ pc' = "done"
    /\ outcome' = Raised(exc, msg)

\* ocr.py:454-457, 516-519: an exception inside the page loop is wrapped, and
\* the finally clause closes the input document (and only that one).
PageLoopFailsMutant ==
    /\ pc' = "done"
    /\ outcome' = Raised("RuntimeError", "native")
    /\ input_doc' = "closed"
PageLoopFails ==
    /\ pc' = "done"
    /\ outcome' = Raised("OCRConversionError",
                         IF IsCreate THEN "page_processing" ELSE "text_extraction")
    /\ input_doc' = "closed"

\* ocr.py:559: path.exists() and path.is_dir()
IsDirectoryPathMutant(is_dir) == FALSE
IsDirectoryPath(is_dir) == is_dir

\* ocr.py:504: what extract_text_from_image_pdf returns for a document without pages
ZeroPageTextMutant == <<>>
ZeroPageText == <<"\n">>

\* ocr_desktop_app.py:404-442: what _convert_task tells the user for an
\* outcome of create_searchable_pdf.
_convert_task(out) ==
    CASE out.kind = "returned" -> "completed"
      [] out.kind = "raised" /\ out.exc = "OCRCancelledError" -> "cancelled"
      [] out.kind = "raised" /\ out.exc \in {"FileNotFoundError", "OCRConversionError"} -> "error"
      [] out.kind = "raised" -> "unexpected error"
      [] OTHER -> "running"

\* ocr.py:387-388, 477-480
CheckTesseract ==
    /\ pc = "check_tesseract"
    /\ IF tesseract_found
       THEN pc' = "check_input" /\ outcome' = outcome
       ELSE Reject("OCRConversionError", "tesseract_not_found")
    /\ UNCHANGED <<threshold, aux_vars, ocr_vars, font_vars, env_vars, fs_vars, doc_vars, page_vars, cancel_vars,
                   index, raster_page, ocr_page, messages, texts, page_texts, returned>>

\* ocr.py:390-394, 482-484
CheckInputMutant ==
    /\ pc = "check_input"
    /\ pc' = (IF IsCreate THEN "prepare_output" ELSE "open")
    /\ outcome' = outcome
    /\ UNCHANGED <<threshold, aux_vars, ocr_vars, font_vars, env_vars, fs_vars, doc_vars, page_vars, cancel_vars,
                   index, raster_page, ocr_page, messages, texts, page_texts, returned>>
CheckInput ==
    /\ pc = "check_input"
    /\ IF input_exists
       THEN pc' = (IF IsCreate THEN "prepare_output" ELSE "open") /\ outcome' = outcome
       ELSE Reject("FileNotFoundError", "input_not_found")
    /\ UNCHANGED <<threshold, aux_vars, ocr_vars, font_vars, env_vars, fs_vars, doc_vars, page_vars, cancel_vars,
                   index, raster_page, ocr_page, messages, texts, page_texts, returned>>

\* ocr.py:396 and _prepare_output_path, ocr.py:547-560
_prepare_output_path ==
    /\ pc = "prepare_output"
    /\ \E mkdir_ok \in BOOLEAN :
        IF ~parent_exists /\ ~mkdir_ok
        THEN /\ Reject("OCRConversionError", "mkdir_failed")
             /\ UNCHANGED <<parent_exists, parent_created>>
        ELSE /\ parent_exists' = TRUE
             /\ parent_created' = ~parent_exists
             /\ IF IsDirectoryPath(output_is_dir)
                THEN Reject("OCRConversionError", "output_is_directory")
                ELSE /\ pc' = (IF IsToFile THEN "write_text" ELSE "find_font")
                     /\ outcome' = outcome
    /\ UNCHANGED <<threshold, aux_vars, ocr_vars, font_vars, env_vars, output_is_dir, output_written, doc_vars,
                   page_vars, cancel_vars, index, raster_page, ocr_page,
                   messages, texts, page_texts, returned>>

\* ocr.py:398: _find_japanese_font_path() returns a path or raises
FindFont ==
    /\ pc = "find_font"
    /\ FontCall
    /\ IF font_result'.kind = "returned"
       THEN pc' = "open" /\ outcome' = outcome
       ELSE Reject("OCRConversionError", "font_not_found")
    /\ UNCHANGED <<threshold, aux_vars, ocr_vars, env_vars, fs_vars, doc_vars, page_vars, cancel_vars,
                   index, raster_page, ocr_page, messages, texts, page_texts, returned>>

\* ocr.py:400-417 and 486-504: open the documents; the zero-page message;
\* extract_text_from_image_pdf returns "\n" for a document without pages.
OpenDocument ==
    /\ pc = "open"
    /\ \E ok \in BOOLEAN, document \in Documents :
        IF ~ok
        THEN /\ Reject("OCRConversionError", "open_failed")
             /\ UNCHANGED <<input_doc, output_doc, total_pages, page_rects, messages, returned>>
        ELSE LET n == Len(document) IN
             /\ total_pages' = n
             /\ page_rects' = document
             /\ messages' = IF n = 0 THEN <<InfoMessage>> ELSE <<>>
             /\ IF IsCreate
                THEN /\ input_doc' = "open"
                     /\ output_doc' = "open"
                     /\ pc' = "loop"
                     /\ UNCHANGED <<outcome, returned>>
                ELSE IF n = 0
                THEN /\ input_doc' = "closed"
                     /\ returned' = ZeroPageText
                     /\ IF IsToFile
                        THEN pc' = "prepare_output" /\ outcome' = outcome
                        ELSE pc' = "done" /\ outcome' = Returned
                     /\ UNCHANGED output_doc
                ELSE /\ input_doc' = "open"
                     /\ pc' = "loop"
                     /\ UNCHANGED <<output_doc, outcome, returned>>
    /\ UNCHANGED <<threshold, aux_vars, ocr_vars, font_vars, env_vars, fs_vars, output_pages, output_rects, page_vars,
                   cancel_vars, index, raster_page, ocr_page, texts, page_texts>>

\* ocr.py:420-421, 506-507: the next page is fetched and rasterized
RasterizeMutant ==
    /\ pc = "loop"
    /\ index < total_pages
    /\ raster_page' = total_pages - index
    /\ \E ok \in BOOLEAN :
        IF ok
        THEN pc' = "ocr" /\ UNCHANGED <<outcome, input_doc>>
        ELSE PageLoopFails
    /\ UNCHANGED <<threshold, aux_vars, ocr_vars, font_vars, env_vars, fs_vars, output_doc, total_pages, output_pages,
                   page_rects, output_rects, page_vars, cancel_vars, index, ocr_page, messages,
                   texts, page_texts, returned>>
Rasterize ==
    /\ pc = "loop"
    /\ index < total_pages
    /\ raster_page' = index + 1
    /\ \E ok \in BOOLEAN :
        IF ok
        THEN pc' = "ocr" /\ UNCHANGED <<outcome, input_doc>>
        ELSE PageLoopFails
    /\ UNCHANGED <<threshold, aux_vars, ocr_vars, font_vars, env_vars, fs_vars, output_doc, total_pages, output_pages, page_rects, output_rects,
                   page_vars, cancel_vars, index, ocr_page, messages, texts, page_texts,
                   returned>>

\* ocr.py:422-431: adaptive OCR, the filter, the new page with its background;
\* ocr.py:508-512: adaptive OCR, image_to_string, the page's entry in texts.
AdaptiveOCR ==
    /\ pc = "ocr"
    /\ ocr_page' = index + 1
    /\ \E p \in AdaptiveResults :
        /\ p[1] = threshold
        /\ LET r == p[2] IN
            IF IsCreate
            THEN /\ ocr_result' = r
                 /\ filtered' = _filter_frame_by_confidence(r.frame, Num(_TEXT_RENDER_CONFIDENCE_THRESHOLD))
                 /\ output_pages' = output_pages + 1
                 /\ output_rects' = Append(output_rects,
                        new_page(page_rects[index + 1].width, page_rects[index + 1].height))
                 /\ row_i' = 0
                 /\ placed' = <<>>
                 /\ pc' = "place"
                 /\ UNCHANGED <<texts, page_texts>>
            ELSE /\ \E page_text \in PageTexts :
                        /\ page_texts' = Append(page_texts, page_text)
                        /\ texts' = Append(texts, PageEntry(index + 1, page_text))
                 /\ pc' = "progress"
                 /\ UNCHANGED <<ocr_result, filtered, output_pages, output_rects, row_i, placed>>
    /\ UNCHANGED <<threshold, aux_vars, ocr_vars, font_vars, env_vars, fs_vars, input_doc, output_doc, total_pages,
                   page_rects, cancel_vars, index, raster_page, place_failure, messages, outcome, returned>>

\* ocr.py:424, 426-431, 510-511: the OCR engine or the PDF engine raises
PageStepRaises ==
    /\ pc = "ocr"
    /\ ocr_page' = index + 1
    /\ PageLoopFails
    /\ UNCHANGED <<threshold, aux_vars, ocr_vars, font_vars, env_vars, fs_vars, output_doc, total_pages, output_pages, page_rects, output_rects,
                   page_vars, cancel_vars, index, raster_page, messages, texts, page_texts,
                   returned>>

\* ocr.py:433-450: one iteration of the loop over the filtered rows
PlaceWord ==
    /\ pc = "place"
    /\ row_i < Len(filtered)
    /\ row_i' = row_i + 1
    /\ LET item == filtered[row_i + 1]
       IN  IF ~IsPlaceable(item.row)
           THEN UNCHANGED <<placed, place_failure, pc, outcome, input_doc>>
           ELSE \E r \in InsertTextOutcomes :
                    IF r = "ok"
                    THEN /\ placed' = Append(placed, item.label)
                         /\ UNCHANGED <<place_failure, pc, outcome, input_doc>>
                    ELSE /\ place_failure' = r
                         /\ placed' = placed
                         /\ IF IsSwallowed(r)
                            THEN UNCHANGED <<pc, outcome, input_doc>>
                            ELSE PageLoopFails
    /\ UNCHANGED <<threshold, aux_vars, ocr_vars, font_vars, env_vars, fs_vars, output_doc, total_pages, output_pages, page_rects, output_rects,
                   ocr_result, filtered, cancel_vars, index, raster_page, ocr_page, messages,
                   texts, page_texts, returned>>

\* ocr.py:452-453, 514-515: the page is complete, its progress message is sent
ReportProgress ==
    /\ \/ pc = "place" /\ row_i = Len(filtered)
       \/ pc = "progress"
    /\ messages' = Append(messages, _build_progress_message(index + 1, total_pages))
    /\ index' = index + 1
    /\ pc' = "loop"
    /\ ocr_result' = NoResult
    /\ filtered' = <<>>
    /\ row_i' = 0
    /\ placed' = <<>>
    /\ place_failure' = "none"
    /\ UNCHANGED <<threshold, aux_vars, ocr_vars, font_vars, env_vars, fs_vars, doc_vars, cancel_vars, raster_page,
                   ocr_page, texts, page_texts, outcome, returned>>

\* ocr.py:456-457 then 459-468: the loop is exhausted, the input document is
\* closed, the output document is saved and closed.
\* ocr.py:518-521: the input document is closed and the text is returned.
FinishDocument ==
    /\ pc = "loop"
    /\ index = total_pages
    /\ input_doc' = "closed"
    /\ IF IsCreate
       THEN /\ output_doc' = "closed"
            /\ pc' = "done"
            /\ \E r \in SaveOutcomes(output_pages) :
                /\ output_written' = (r = "ok")
                /\ outcome' = CASE r = "ok" -> Returned
                                [] r = "PermissionError" -> Raised("OCRConversionError", "save_permission")
                                [] OTHER -> Raised("OCRConversionError", "save_failed")
            /\ returned' = returned
       ELSE /\ returned' = JoinTexts(texts)
            /\ IF IsToFile
               THEN pc' = "prepare_output" /\ outcome' = outcome
               ELSE pc' = "done" /\ outcome' = Returned
            /\ UNCHANGED <<output_doc, output_written>>
    /\ UNCHANGED <<threshold, aux_vars, ocr_vars, font_vars, env_vars, parent_exists, output_is_dir, parent_created,
                   total_pages, output_pages, page_rects, output_rects, page_vars, cancel_vars,
                   index, raster_page,
                   ocr_page, messages, texts, page_texts>>

\* ocr.py:537-544: extract_text_to_file writes the text it got
WriteTextOutcomes == {"ok", "PermissionError", "OSError"}

WriteText ==
    /\ pc = "write_text"
    /\ pc' = "done"
    /\ \E r \in WriteTextOutcomes :
        /\ output_written' = (r = "ok")
        /\ outcome' = CASE r = "ok" -> Returned
                        [] r = "PermissionError" -> Raised("OCRConversionError", "write_permission")
                        [] OTHER -> Raised("OCRConversionError", "write_failed")
    /\ UNCHANGED <<threshold, aux_vars, ocr_vars, font_vars, env_vars, parent_exists, output_is_dir, parent_created,
                   doc_vars, page_vars, cancel_vars, index, raster_page, ocr_page, messages, texts,
                   page_texts, returned>>

\* ocr_desktop_app.py:327-329: the caller sets the cancellation token while
\* the call is running.  Neither function takes or reads the token.
CancelRequest ==
    /\ pc # "done"
    /\ ~cancel_event
    /\ cancel_event' = TRUE
    /\ cancel_boundary' = (IF pc = "loop" THEN index ELSE 0 - 1)
    /\ UNCHANGED <<threshold, aux_vars, ocr_vars, font_vars, env_vars, fs_vars, doc_vars, page_vars, run_vars>>

Next ==
    \/ CheckTesseract
    \/ CheckInput
    \/ _prepare_output_path
    \/ FindFont
    \/ OpenDocument
    \/ Rasterize
    \/ AdaptiveOCR
    \/ PageStepRaises
    \/ PlaceWord
    \/ ReportProgress
    \/ FinishDocument
    \/ CancelRequest

Spec == Init /\ [][Next]_vars

\* a call of extract_text_to_file is about to start
InitFile ==
    /\ threshold = Num(DefaultConfidenceThreshold)
    /\ OcrIdle
    /\ PipeIdle
    /\ FontIdle
    /\ AuxIdle
    /\ font_files = FontPaths
    /\ ocr_jpn_font = FALSE
    /\ fn = "extract_text_to_file"
    /\ tesseract_found \in BOOLEAN
    /\ input_exists \in BOOLEAN
    /\ parent_exists \in BOOLEAN
    /\ output_is_dir \in BOOLEAN
    /\ output_is_dir => parent_exists

NextFile ==
    \/ CheckTesseract
    \/ CheckInput
    \/ OpenDocument
    \/ Rasterize
    \/ AdaptiveOCR
    \/ PageStepRaises
    \/ ReportProgress
    \/ FinishDocument
    \/ _prepare_output_path
    \/ WriteText

SpecFile == InitFile /\ [][NextFile]_vars

\* the server is up, no request was made yet
InitHTTP ==
    /\ threshold = Num(DefaultConfidenceThreshold)
    /\ OcrIdle
    /\ PipeIdle
    /\ FontIdle
    /\ AuxIdle
    /\ font_files = FontPaths
    /\ ocr_jpn_font = FALSE
    /\ fn = "create_searchable_pdf"
    /\ tesseract_found = TRUE
    /\ input_exists = TRUE
    /\ parent_exists = TRUE
    /\ output_is_dir = FALSE

NextHTTP ==
    \/ convert_pdf
    \/ CheckContentType
    \/ CreateInputTmp
    \/ CreateOutputTmp
    \/ Convert
    \/ AddTasks
    \/ SendResponse
    \/ RunBackgroundTask

SpecHTTP == InitHTTP /\ [][NextHTTP]_vars

\* the workspace was built, nothing was started yet
InitDesk == InitHTTP

NextDesk ==
    \/ _start_conversion
    \/ StartIsAlive
    \/ StartCreateEvent
    \/ StartSetBusy
    \/ StartAssignWorker
    \/ StartThread
    \/ _cancel_running_task
    \/ CancelIsSet
    \/ CancelSet
    \/ SetBusyFalse
    \/ \E r \in Runs :
        \/ TaskBegin(r)
        \/ TaskEnd(r)
        \/ ClearWorker(r)
        \/ ClearEvent(r)
        \/ NotifyIdle(r)
        \/ ThreadEnds(r)

SpecDesk == InitDesk /\ [][NextDesk]_vars

NextOCR ==
    \/ OcrRaw
    \/ Preprocess
    \/ OcrProcessed
    \/ OcrEngineRaises

SpecOCR == InitOCR /\ [][NextOCR]_vars

\* a call of _build_progress_message is about to be made
InitProgress ==
    /\ threshold = Num(DefaultConfidenceThreshold)
    /\ OcrIdle
    /\ PipeIdle
    /\ FontIdle
    /\ font_files = FontPaths
    /\ ocr_jpn_font = FALSE
    /\ fn = "create_searchable_pdf"
    /\ tesseract_found = TRUE
    /\ input_exists = TRUE
    /\ parent_exists = TRUE
    /\ output_is_dir = FALSE
    /\ progress_pc = "start"
    /\ progress_current \in 0..MaxPages
    /\ progress_total \in 0..MaxPages
    /\ progress_elapsed \in ElapsedValues
    /\ remaining_text = <<>>
    /\ HttpIdle
    /\ DeskIdle

NextProgress == BuildProgressMessage

SpecProgress == InitProgress /\ [][NextProgress]_vars

NextFont ==
    \/ _find_japanese_font_path
    \/ FontInstalled
    \/ FontRemoved

SpecFont == InitFont /\ [][NextFont]_vars

(***************************************************************************)
(* Properties of _perform_adaptive_ocr (checked under SpecOCR).            *)
(***************************************************************************)
RawPassDone == ocr_pc \in {"preprocess", "ocr_processed", "returned"} \/ (ocr_pc = "raised" /\ ocr_calls = 2)
RawAverage == best_result.average_confidence
RawIsGood == Ge(RawAverage, threshold)

\* C1: when the raw pass has average confidence >= the threshold, the
\* preprocessing step is never invoked, the call returns right after the raw
\* pass, and the value returned is the raw pass with used_preprocessing = FALSE.
C1_GoodRawPassSkipsPreprocessing ==
    (RawPassDone /\ RawIsGood) =>
        /\ preprocess_calls = 0
        /\ ocr_calls = 1
        /\ ocr_pc = "returned"
        /\ result = BasePass(base_frame_raw)
        /\ result.used_preprocessing = FALSE

\* a raw pass exactly at the threshold has been returned
C1_Witness ==
    /\ ocr_pc = "returned"
    /\ base_frame_raw # <<>>
    /\ NumEq(RawAverage, threshold)
    /\ preprocess_calls = 0

\* C2: when the raw pass has average confidence below the threshold and the
\* call returns, preprocessing and the second OCR pass have run exactly once,
\* the value returned is the preprocessed pass (its frame scaled back, its
\* average) iff its average is strictly higher than the raw pass's, and
\* otherwise, ties included, the raw pass with used_preprocessing = FALSE.
C2_PoorRawPassTriesPreprocessingOnce ==
    /\ preprocess_calls <= 1
    /\ ocr_calls <= 2
    /\ (ocr_pc = "returned" /\ ~RawIsGood) =>
        /\ preprocess_calls = 1
        /\ ocr_calls = 2
        /\ processed_average = _compute_average_confidence(processed_frame_raw)
        /\ IF Gt(processed_average, RawAverage)
           THEN /\ result.used_preprocessing = TRUE
                /\ result.average_confidence = processed_average
                /\ result.frame = _prepare_frame(processed_frame_raw, UpscaleNum, UpscaleDen)
           ELSE /\ result.used_preprocessing = FALSE
                /\ result = BasePass(base_frame_raw)

\* a tie between two non-empty passes below the threshold: the raw pass is kept
C2_Witness ==
    /\ ocr_pc = "returned"
    /\ ~RawIsGood
    /\ preprocess_calls = 1
    /\ base_frame_raw # <<>>
    /\ processed_frame_raw # base_frame_raw
    /\ NumEq(processed_average, RawAverage)
    /\ Gt(RawAverage, Num(0))
    /\ result.used_preprocessing = FALSE

\* returned * scale = engine, for one cell; a missing cell stays missing
TimesScaleIs(cell, engine) ==
    IF engine.ok
    THEN cell.ok /\ cell.num * UpscaleNum * engine.den = engine.num * UpscaleDen * cell.den
    ELSE ~cell.ok

\* C12: every word of a returned pass that ran on the preprocessed image has
\* each box coordinate (left, top, width, height) equal to the engine's
\* coordinate divided by the scale factor, so that the returned coordinate
\* times the scale factor is the engine's coordinate, and has the engine's
\* confidence and text unchanged; a returned raw pass is the engine's frame
\* unchanged.
C12_RescaleRoundTrip ==
    ocr_pc = "returned" =>
        IF result.used_preprocessing
        THEN /\ Len(result.frame) = Len(processed_frame_raw)
             /\ \A i \in DOMAIN processed_frame_raw :
                    /\ TimesScaleIs(result.frame[i].left, processed_frame_raw[i].left)
                    /\ TimesScaleIs(result.frame[i].top, processed_frame_raw[i].top)
                    /\ TimesScaleIs(result.frame[i].width, processed_frame_raw[i].width)
                    /\ TimesScaleIs(result.frame[i].height, processed_frame_raw[i].height)
                    /\ result.frame[i].conf = processed_frame_raw[i].conf
                    /\ result.frame[i].text = processed_frame_raw[i].text
        ELSE result.frame = base_frame_raw

\* a preprocessed pass with a word at left = 30 was returned with left = 20
C12_Witness ==
    /\ ocr_pc = "returned"
    /\ result.used_preprocessing
    /\ Len(result.frame) >= 1
    /\ processed_frame_raw[1].left = Num(30)
    /\ NumEq(result.frame[1].left, Num(20))
    /\ result.frame[1].conf = processed_frame_raw[1].conf

\* the tokens of a frame whose confidence is present and >= 0
ValidTokens(frame) == { i \in DOMAIN frame : frame[i].conf.ok /\ frame[i].conf.num >= 0 }

RECURSIVE SumOfConfidences(_, _)
SumOfConfidences(frame, tokens) ==
    IF tokens = {} THEN 0
    ELSE LET i == CHOOSE j \in tokens : TRUE
         IN  frame[i].conf.num + SumOfConfidences(frame, tokens \ {i})

\* avg is the arithmetic mean of the confidences of the valid tokens of frame, 0 without one
IsMeanOfValid(avg, frame) ==
    LET tokens == ValidTokens(frame)
    IN  /\ avg.ok
        /\ IF tokens = {} THEN avg.num = 0
           ELSE avg.num * Cardinality(tokens) = SumOfConfidences(frame, tokens) * avg.den

\* C13: the average confidence of every OCR pass is the arithmetic mean of the
\* confidences of exactly the tokens whose confidence is present and >= 0
\* (missing and negative ones count neither in the sum nor in the count), and
\* is 0 when the pass has no such token; the result returned carries the
\* average of the pass it holds.
C13_AverageIsMeanOfValidConfidences ==
    /\ RawPassDone => IsMeanOfValid(best_result.average_confidence, base_frame_raw)
    /\ (ocr_pc = "returned" /\ ocr_calls = 2) =>
            IsMeanOfValid(processed_average, processed_frame_raw)
    /\ ocr_pc = "returned" =>
            IsMeanOfValid(result.average_confidence,
                          IF result.used_preprocessing THEN processed_frame_raw ELSE base_frame_raw)

\* a raw pass with a token at -1 and a token at 50 has average 50
C13_Witness ==
    /\ RawPassDone
    /\ Len(base_frame_raw) = 2
    /\ base_frame_raw[1].conf = Num(0 - 1)
    /\ base_frame_raw[2].conf = Num(50)
    /\ NumEq(best_result.average_confidence, Num(50))

ZeroTokenRawPass == RawPassDone /\ base_frame_raw = <<>>
PreprocessingTriggered == ocr_pc \in {"preprocess", "ocr_processed"} \/ preprocess_calls = 1
RawKeptAfterEmptyPasses ==
    (ocr_pc = "returned" /\ ocr_calls = 2 /\ processed_frame_raw = <<>>) =>
        /\ result.frame = <<>>
        /\ result.used_preprocessing = FALSE

\* C14 as stated: a raw pass with zero tokens has average confidence 0, which
\* is below the threshold whatever value is configured, so preprocessing is
\* always triggered; when the preprocessed pass has zero tokens too, the raw
\* result is returned with used_preprocessing = FALSE.
C14_Original ==
    ZeroTokenRawPass =>
        /\ RawAverage = Num(0)
        /\ Lt(RawAverage, threshold)
        /\ PreprocessingTriggered
        /\ RawKeptAfterEmptyPasses

\* C14 as amended: a raw pass with zero tokens has average confidence 0; for
\* every configured threshold greater than 0 this is below the threshold and
\* preprocessing is triggered, and when the preprocessed pass has zero tokens
\* too, the raw result is returned with used_preprocessing = FALSE; for a
\* configured threshold of 0 or less, average 0 reaches the threshold and the
\* raw result is returned at once, without preprocessing.
C14_ZeroTokenPassTriggersPreprocessing ==
    ZeroTokenRawPass =>
        /\ RawAverage = Num(0)
        /\ Gt(threshold, Num(0)) =>
                /\ Lt(RawAverage, threshold)
                /\ PreprocessingTriggered
                /\ RawKeptAfterEmptyPasses
        /\ ~Gt(threshold, Num(0)) =>
                /\ ocr_pc = "returned"
                /\ preprocess_calls = 0
                /\ result.frame = <<>>
                /\ result.used_preprocessing = FALSE

\* both passes returned zero tokens under the default threshold: the raw result is returned
C14_Witness ==
    /\ ocr_pc = "returned"
    /\ threshold = Num(DefaultConfidenceThreshold)
    /\ base_frame_raw = <<>>
    /\ processed_frame_raw = <<>>
    /\ preprocess_calls = 1
    /\ ocr_calls = 2
    /\ result.used_preprocessing = FALSE

(***************************************************************************)
(* Properties of the page pipelines (checked under Spec).                  *)
(***************************************************************************)
Done == pc = "done"
Opened == input_doc # "none"

\* C3: when the cancellation token is set at the page boundary after page k
\* of an N-page document (1 <= k < N), the OCR call of page k+1 is never
\* started, and the run ends cancelled: neither completed nor an error.
C3_CancelStopsBeforeNextPage ==
    (cancel_boundary >= 1 /\ cancel_boundary < total_pages) =>
        /\ ocr_page <= cancel_boundary
        /\ Done => _convert_task(outcome) = "cancelled"

\* C4: a run of create_searchable_pdf whose cancellation token was set at a
\* page boundary with pages left never writes the output document and never
\* tells its caller that it succeeded.
C4_CancelledRunNeverSaves ==
    (IsCreate /\ cancel_boundary >= 1 /\ cancel_boundary < total_pages) =>
        /\ ~output_written
        /\ _convert_task(outcome) # "completed"

AfterPrepare == pc \in {"find_font", "open", "loop", "ocr", "place", "progress"}
NoEngineWork == input_doc = "none" /\ raster_page = 0 /\ ocr_page = 0
OutputDirRejection == Raised("OCRConversionError", "output_is_directory")

\* C5 as stated: the parent directory of the output path exists before the
\* output is written, and a call whose output path is an existing directory is
\* rejected with the output-path failure before the input document is opened
\* and before any rasterization or OCR call.
C5_Original ==
    /\ IsCreate /\ (AfterPrepare \/ output_written) => parent_exists
    /\ (IsCreate /\ output_is_dir /\ Done) => (outcome = OutputDirRejection /\ NoEngineWork)

\* C5 as amended: the parent directory of the output path exists (created by
\* the call if it was missing) from the output-path check on, so before the
\* output is written; and a call whose output path is an existing directory
\* never opens the input document, never rasterizes or OCRs, writes nothing
\* and ends in a failure, which is the output-path failure whenever the OCR
\* engine is available and the input path exists (the two earlier checks
\* otherwise fail first, with their own failure).
C5_OutputPathCheckedBeforeOpen ==
    /\ IsCreate /\ (AfterPrepare \/ output_written) => parent_exists
    /\ parent_created => parent_exists
    /\ (IsCreate /\ output_is_dir) =>
        /\ NoEngineWork
        /\ ~output_written
        /\ Done => outcome.kind = "raised"
        /\ (Done /\ tesseract_found /\ input_exists) => outcome = OutputDirRejection

\* the call was rejected because its output path is a directory
C5_Witness ==
    /\ IsCreate
    /\ output_is_dir
    /\ Done
    /\ outcome = OutputDirRejection
    /\ NoEngineWork

\* C6: create_searchable_pdf on a document without pages sends exactly one
\* informational message, makes no rasterization or OCR call and completes,
\* having written an output document with zero pages.
C6_ZeroPageDocumentCompletes ==
    (IsCreate /\ Done /\ Opened /\ total_pages = 0) =>
        /\ messages = <<InfoMessage>>
        /\ raster_page = 0
        /\ ocr_page = 0
        /\ output_pages = 0
        /\ outcome = Returned
        /\ output_written

ZeroPageExtraction == ~IsCreate /\ Done /\ Opened /\ total_pages = 0

RenderThreshold == Num(_TEXT_RENDER_CONFIDENCE_THRESHOLD)
OneBelowRenderThreshold == Num(_TEXT_RENDER_CONFIDENCE_THRESHOLD - 1)
IsKept(i) == \E k \in DOMAIN filtered : filtered[k].label = i

\* C8: once the page's frame is filtered, every word with confidence exactly
\* 50 is kept for placement, and every word with confidence 49, with a
\* missing confidence or with a negative confidence is excluded.
C8_RenderThresholdFilter ==
    (IsCreate /\ pc = "place") =>
        \A i \in DOMAIN ocr_result.frame :
            LET conf == ocr_result.frame[i].conf
            IN  /\ NumEq(conf, RenderThreshold) => IsKept(i)
                /\ NumEq(conf, OneBelowRenderThreshold) => ~IsKept(i)
                /\ ~conf.ok => ~IsKept(i)
                /\ Lt(conf, Num(0)) => ~IsKept(i)

\* a page whose frame holds a word at 50 and a word at 49: only the first is kept
C8_Witness ==
    /\ IsCreate
    /\ pc = "place"
    /\ Len(ocr_result.frame) = 2
    /\ NumEq(ocr_result.frame[1].conf, OneBelowRenderThreshold)
    /\ NumEq(ocr_result.frame[2].conf, RenderThreshold)
    /\ Len(filtered) = 1
    /\ filtered[1].label = 2

\* words of the chosen pass with confidence >= 50 and non-empty trimmed text
EligibleWords ==
    { i \in DOMAIN ocr_result.frame :
        /\ Ge(ocr_result.frame[i].conf, RenderThreshold)
        /\ ~ocr_result.frame[i].text.missing
        /\ Strip(ocr_result.frame[i].text.s) # <<>> }

\* C9: on every output page the number of text placements made is at most the
\* number of words of the chosen pass with confidence >= 50 and non-empty
\* trimmed text, no word is placed twice, and every word placed is such a word.
C9_PlacementsBoundedByEligibleWords ==
    IsCreate =>
        /\ Len(placed) <= Cardinality(EligibleWords)
        /\ \A k \in DOMAIN placed : placed[k] \in EligibleWords
        /\ \A k, l \in DOMAIN placed : placed[k] = placed[l] => k = l

\* a finished page with two eligible words of which one was placed, and a
\* word without text that was not
C9_Witness ==
    /\ IsCreate
    /\ pc = "place"
    /\ row_i = Len(filtered)
    /\ Len(filtered) = 2
    /\ Cardinality(EligibleWords) = 1
    /\ Len(placed) = 1

\* C10: a failure of insert_text for one word is never escalated: after it the
\* page is still being processed, whatever exception insert_text raised.
C10_PlacementFailureNeverEscalates ==
    place_failure # "none" => (~Done /\ outcome = Running)

\* C11: when create_searchable_pdf has completed successfully, the output
\* document has as many pages as the input document, and output page i has
\* exactly the width and the height of input page i, for every i.
C11_OutputPagesMatchInputPages ==
    (IsCreate /\ Done /\ outcome = Returned) =>
        /\ output_pages = total_pages
        /\ Len(output_rects) = Len(page_rects)
        /\ \A i \in DOMAIN page_rects :
                /\ output_rects[i].width = page_rects[i].width
                /\ output_rects[i].height = page_rects[i].height

\* a document with a portrait page followed by a landscape page was converted
C11_Witness ==
    /\ IsCreate
    /\ Done
    /\ outcome = Returned
    /\ output_written
    /\ total_pages = 2
    /\ page_rects[1] = Rect(595, 842)
    /\ page_rects[2] = Rect(842, 595)

\* the pages whose OCR and compose / accumulate step has completed
PagesComposed == IF IsCreate THEN output_pages ELSE Len(texts)

\* C15: for a document of N >= 1 pages, the k-th progress message carries the
\* counter k and the total N; it is sent after page k's OCR and compose /
\* accumulate step has completed and before the rasterization of page k+1
\* starts; a run that succeeds has sent exactly N messages, with the counters
\* 1, 2, ..., N in this order.
C15_OneProgressMessagePerPage ==
    (Opened /\ total_pages >= 1) =>
        /\ Len(messages) = index
        /\ \A k \in DOMAIN messages :
                messages[k] = [kind |-> "page", current |-> k, total |-> total_pages]
        /\ Len(messages) <= ocr_page
        /\ Len(messages) <= PagesComposed
        /\ raster_page <= Len(messages) + 1
        /\ pc \in {"ocr", "place", "progress"} => Len(messages) = raster_page - 1
        /\ (Done /\ outcome = Returned) => Len(messages) = total_pages

\* a two-page document was processed to success: two messages, 1/2 then 2/2
C15_Witness ==
    /\ Done
    /\ outcome = Returned
    /\ total_pages = 2
    /\ Len(messages) = 2
    /\ messages[1].current = 1
    /\ messages[2].current = 2
    /\ raster_page = 2

\* the page being processed: rasterized, its progress message not yet sent (0: none)
PageInProgress == IF raster_page > index THEN raster_page ELSE 0

PageOrderInvariant ==
    /\ index <= raster_page /\ raster_page <= index + 1
    /\ index <= ocr_page /\ ocr_page <= raster_page
    /\ pc = "ocr" => PageInProgress = index + 1 /\ ocr_page = index
    /\ pc \in {"place", "progress"} => PageInProgress = index + 1 /\ ocr_page = index + 1
    /\ pc = "loop" => PageInProgress = 0

PageOrderStep ==
    /\ raster_page' \in {raster_page, raster_page + 1}
    /\ ocr_page' \in {ocr_page, ocr_page + 1}
    /\ index' \in {index, index + 1}
    /\ raster_page' # raster_page => (PageInProgress = 0 /\ raster_page' = index + 1)
    /\ ocr_page' # ocr_page => (ocr_page' = raster_page /\ raster_page' = raster_page)
    /\ index' # index => (index' = ocr_page /\ index' = raster_page)

\* C16: within one conversion the pages are taken in ascending order, one at
\* a time: a page is rasterized only when no page is in progress and it is
\* the page after the last completed one; it is OCR'd only after its own
\* rasterization; it is completed (its progress reported) only after its own
\* OCR; so at most one page, hence at most one rasterization or OCR call, is
\* in progress at any time, and every step of page i precedes every step of
\* page i+1.
C16_PagesStrictlyInOrder == [](PageOrderInvariant) /\ [][PageOrderStep]_vars

\* the second page is being OCR'd after the first one was completed
C16_Witness ==
    /\ pc = "place"
    /\ index = 1
    /\ raster_page = 2
    /\ ocr_page = 2
    /\ Len(messages) = 1

\* the typed failures of section 7, as the code raises them
PageProcessingFailed ==
    Raised("OCRConversionError", IF IsCreate THEN "page_processing" ELSE "text_extraction")
OutputWriteFailed ==
    { Raised("OCRConversionError", "save_permission"), Raised("OCRConversionError", "save_failed") }

\* the step taken is a rasterization, OCR or composition step of the page loop
InPageLoopStep == pc \in {"ocr", "place"} \/ (pc = "loop" /\ index < total_pages)
\* the step taken is the save of the output document
InSaveStep == IsCreate /\ pc = "loop" /\ index = total_pages

\* C17: a page-loop step (rasterization, OCR, composition) that ends the call
\* with an exception ends it with the typed page-processing failure; a save
\* that ends the call with an exception ends it with the typed output-write
\* failure; whatever step ends the call with an exception, the exception is
\* one of the module's own failure types, never an engine's.
C17_EngineExceptionsAreWrapped ==
    [][ (pc' = "done" /\ outcome'.kind = "raised") =>
            /\ outcome'.exc \in {"OCRConversionError", "FileNotFoundError"}
            /\ InPageLoopStep => outcome' = PageProcessingFailed
            /\ InSaveStep => outcome' \in OutputWriteFailed ]_vars

\* insert_text raised an exception that is not swallowed: page-processing failure
C17_Witness ==
    /\ IsCreate
    /\ Done
    /\ place_failure = "OtherError"
    /\ outcome = PageProcessingFailed

\* the expected failure conditions of create_searchable_pdf, as the code raises them
InputNotFound == Raised("FileNotFoundError", "input_not_found")
EngineUnavailable == Raised("OCRConversionError", "tesseract_not_found")
FontNotFound == Raised("OCRConversionError", "font_not_found")
WritePermissionDenied == Raised("OCRConversionError", "save_permission")
ExpectedFailures == { InputNotFound, EngineUnavailable, FontNotFound, WritePermissionDenied }

\* the kind of a failure: what a caller can tell without reading the message
ErrorKind(failure) == failure.exc

\* C18: when create_searchable_pdf fails on one of its four expected
\* conditions (input missing, OCR engine unavailable, no font, no permission
\* to write), the kind of the failure is the kind of none of the other three
\* conditions' failures.
C18_ExpectedFailuresHaveDistinctKinds ==
    (IsCreate /\ Done /\ outcome \in ExpectedFailures) =>
        \A other \in ExpectedFailures \ {outcome} : ErrorKind(other) # ErrorKind(outcome)

\* the failures of the precondition checks of create_searchable_pdf
PreconditionFailures ==
    { EngineUnavailable, InputNotFound, FontNotFound,
      Raised("OCRConversionError", "mkdir_failed"), OutputDirRejection }

NoHandleOpened == input_doc = "none" /\ output_doc = "none"

\* C19: in create_searchable_pdf every precondition check comes before the
\* input document is opened: a call in which one of them failed has opened no
\* document handle and made no rasterization or OCR call, and a call that has
\* opened a handle has the OCR engine, an existing input path and an output
\* path that is not a directory and whose parent directory exists.
C19_PreconditionsBeforeOpen ==
    IsCreate =>
        /\ (Done /\ outcome \in PreconditionFailures) =>
                (NoHandleOpened /\ raster_page = 0 /\ ocr_page = 0)
        /\ ~NoHandleOpened =>
                /\ tesseract_found
                /\ input_exists
                /\ ~output_is_dir
                /\ parent_exists
                /\ outcome \notin PreconditionFailures
        /\ (raster_page > 0 \/ ocr_page > 0) => ~NoHandleOpened

\* the last of the checks, the font, failed: nothing was opened
C19_Witness ==
    /\ IsCreate
    /\ Done
    /\ outcome = FontNotFound
    /\ tesseract_found
    /\ input_exists
    /\ NoHandleOpened
    /\ raster_page = 0

(***************************************************************************)
(* Properties of _find_japanese_font_path (checked under SpecFont).        *)
(***************************************************************************)
FontCallMade == font_calls' = font_calls + 1
CachedPathExists == _FONT_PATH_CACHE # NoFont /\ _FONT_PATH_CACHE \in font_files

\* C20: a path is cached only by a successful call; a call made while the
\* cached path exists returns the cached path without searching and leaves
\* the cache alone; a call made while nothing is cached or the cached path
\* has stopped existing searches, and either returns a path it has found and
\* caches it, or fails with the font-not-found failure; a path returned
\* exists at the time of the call.
C20_FontCacheRevalidated ==
    /\ [](_FONT_PATH_CACHE # NoFont => font_calls >= 1)
    /\ [][ FontCallMade =>
            /\ font_result'.kind \in {"returned", "raised"}
            /\ font_result'.kind = "returned" => font_result'.path \in font_files
            /\ IF CachedPathExists
               THEN /\ font_result' = FontReturned(_FONT_PATH_CACHE)
                    /\ ~font_searched'
                    /\ _FONT_PATH_CACHE' = _FONT_PATH_CACHE
               ELSE /\ font_searched'
                    /\ \/ /\ font_result'.kind = "returned"
                          /\ font_result'.path # NoFont
                          /\ _FONT_PATH_CACHE' = font_result'.path
                       \/ font_result' = FontRaised ]_vars

\* the second call returned the cached glob match without searching, although
\* the OCR_JPN_FONT override, first in the search order, exists by now
C20_Witness ==
    /\ font_calls = 2
    /\ font_result.kind = "returned"
    /\ ~font_searched
    /\ font_result.path = _FONT_PATH_CACHE
    /\ _FONT_PATH_CACHE.stage = "glob"
    /\ ocr_jpn_font
    /\ EnvFontPath \in font_files

\* the matches of the three stages at the time of the call
OverrideMatches == ocr_jpn_font /\ EnvFontPath \in font_files
ExactMatches == { path \in font_files : path.stage = "exact" }
GlobMatches == { path \in font_files : path.stage = "glob" }

\* what the search order prescribes for the call being made
FirstMatchReturned ==
    /\ OverrideMatches => font_result' = FontReturned(EnvFontPath)
    /\ (~OverrideMatches /\ ExactMatches # {}) =>
            (font_result'.kind = "returned" /\ font_result'.path \in ExactMatches)
    /\ (~OverrideMatches /\ ExactMatches = {} /\ GlobMatches # {}) =>
            (font_result'.kind = "returned" /\ font_result'.path \in GlobMatches)
    /\ font_result' = FontRaised <=>
            (~OverrideMatches /\ ExactMatches = {} /\ GlobMatches = {})

\* C21 as stated: every call returns the first match in the order override,
\* exact file name in any candidate directory, glob match in any candidate
\* directory, and fails iff no stage matches.
C21_Original == [][FontCallMade => FirstMatchReturned]_vars

\* C21 as amended: every call that searches, that is every call made while no
\* cached path exists, returns the first match in the order override, exact
\* file name in any candidate directory, glob match in any candidate
\* directory, and fails iff no stage matches; a call made while the cached
\* path exists returns the cached path, whatever the search order would give.
C21_SearchOrderFirstMatchWins ==
    [][FontCallMade =>
        IF CachedPathExists
        THEN font_result' = FontReturned(_FONT_PATH_CACHE)
        ELSE FirstMatchReturned]_vars

\* the first call found an exact file name in the second directory and a glob
\* match in the first directory: the exact file name was returned
C21_Witness ==
    /\ font_calls = 1
    /\ font_searched
    /\ ~OverrideMatches
    /\ FontPath("glob", 1, 1) \in font_files
    /\ ExactMatches = {FontPath("exact", 2, 1)}
    /\ font_result = FontReturned(FontPath("exact", 2, 1))

(***************************************************************************)
(* Properties of _build_progress_message (checked under SpecProgress).     *)
(***************************************************************************)
DigitValue(ch) == CHOOSE d \in 0..9 : ToString(d) = ch
IsDigit(ch) == \E d \in 0..9 : ToString(d) = ch
\* the number written by the two digits of text at positions i and i + 1
TwoDigitValue(text, i) == 10 * DigitValue(text[i]) + DigitValue(text[i + 1])

\* text is MM:SS
IsMinutesSeconds(text) ==
    /\ Len(text) = 5
    /\ text[3] = ":"
    /\ \A i \in {1, 2, 4, 5} : IsDigit(text[i])
\* text is HH:MM:SS
IsHoursMinutesSeconds(text) ==
    /\ Len(text) = 8
    /\ text[3] = ":" /\ text[6] = ":"
    /\ \A i \in {1, 2, 4, 5, 7, 8} : IsDigit(text[i])

HoursShown(text) == IF Len(text) = 8 THEN TwoDigitValue(text, 1) ELSE 0
MinutesShown(text) == TwoDigitValue(text, Len(text) - 4)
SecondsShown(text) == TwoDigitValue(text, Len(text) - 1)
DurationShown(text) == 3600 * HoursShown(text) + 60 * MinutesShown(text) + SecondsShown(text)

\* C22: with total > 0 and current = 0 the remaining time is shown as the
\* unknown sentinel (nothing is divided by zero); for current >= 1 the time
\* shown is (elapsed / current) * max(total - current, 0) to the nearest
\* second, written MM:SS when its hour part is zero and HH:MM:SS otherwise,
\* with minutes and seconds in 0..59, and it is 00:00 when current = total.
C22_RemainingTimeEstimate ==
    (progress_pc = "done" /\ progress_total > 0) =>
        IF progress_current = 0
        THEN remaining_text = UnknownDuration
        ELSE LET pages_left == IF progress_total > progress_current
                               THEN progress_total - progress_current ELSE 0
                 shown == DurationShown(remaining_text)
                 \* |shown - elapsed / 2 / current * pages_left| <= 1/2
                 diff == 2 * progress_current * shown - progress_elapsed * pages_left
             IN  /\ IsMinutesSeconds(remaining_text) \/ IsHoursMinutesSeconds(remaining_text)
                 /\ IsHoursMinutesSeconds(remaining_text) <=> shown >= 3600
                 /\ MinutesShown(remaining_text) \in 0..59
                 /\ SecondsShown(remaining_text) \in 0..59
                 /\ diff <= progress_current /\ 0 - diff <= progress_current
                 /\ progress_current = progress_total =>
                        remaining_text = <<"0", "0", ":", "0", "0">>

\* one page of two done after 3600 seconds: one hour left, shown as 01:00:00
C22_Witness ==
    /\ progress_pc = "done"
    /\ progress_current = 1
    /\ progress_total = 2
    /\ progress_elapsed = 7200
    /\ remaining_text = <<"0", "1", ":", "0", "0", ":", "0", "0">>

(***************************************************************************)
(* More properties of the page pipelines (checked under Spec).             *)
(***************************************************************************)
\* the positions of the returned string where a page header starts
HeaderPositions == { i \in DOMAIN returned : returned[i] = "--- " }
\* the number, counting from 1, of the header that starts at position p
HeaderRank(p) == Cardinality({ q \in HeaderPositions : q <= p })

\* C23: the string extract_text_from_image_pdf returns for a document of
\* N >= 1 pages holds exactly N page headers; the k-th header carries the
\* number k and is immediately followed by the text recognized for page k
\* with its leading and trailing whitespace removed, and then by a line end
\* or the end of the string.
C23_OneHeaderPerPage ==
    (~IsCreate /\ Done /\ outcome = Returned /\ total_pages >= 1) =>
        /\ Len(page_texts) = total_pages
        /\ Cardinality(HeaderPositions) = total_pages
        /\ \A p \in HeaderPositions :
            LET k == HeaderRank(p)
                trimmed == Strip(page_texts[k])
                last == p + 3 + Len(trimmed)
            IN  /\ last <= Len(returned)
                /\ returned[p + 1] = ToString(k)
                /\ returned[p + 2] = " ---"
                /\ returned[p + 3] = "\n"
                /\ SubSeq(returned, p + 4, last) = trimmed
                /\ last = Len(returned) \/ returned[last + 1] = "\n"

\* two pages: " a\n" was recognized on the first, nothing on the second
C23_Witness ==
    /\ ~IsCreate
    /\ Done
    /\ outcome = Returned
    /\ total_pages = 2
    /\ page_texts = << <<" ", "a", "\n">>, <<>> >>
(***************************************************************************)
(* C24: word boxes are measured in the pixels of the 300-dpi raster and    *)
(* are rescaled to the points of the output page: for every placed word    *)
(* whose box lies inside the raster, the insertion point (left, top +      *)
(* height) handed to insert_text lies inside the output page rectangle.    *)
(***************************************************************************)
PlacedRow(k) == (CHOOSE item \in {filtered[i] : i \in DOMAIN filtered} : item.label = placed[k]).row

InsideRaster(row, pix) ==
    /\ Ge(row.left, Num(0))
    /\ Ge(row.top, Num(0))
    /\ Ge(Num(pix.width), Add(row.left, row.width))
    /\ Ge(Num(pix.height), Add(row.top, row.height))

InsidePage(point, rect) ==
    /\ Ge(point.x, Num(0))
    /\ Ge(Num(rect.width), point.x)
    /\ Ge(point.y, Num(0))
    /\ Ge(Num(rect.height), point.y)

\* C24: every placed word inside the raster is inserted inside the page
C24_InsertionPointInsidePage ==
    \A k \in DOMAIN placed :
        InsideRaster(PlacedRow(k), get_pixmap(page_rects[index + 1], 300))
            => InsidePage(insert_text_point(PlacedRow(k)), output_rects[Len(output_rects)])

(***************************************************************************)
(* C25: extract_text_to_file validates the output path before any OCR work *)
(* begins (checked under SpecFile).                                        *)
(***************************************************************************)
\* C25: a call of extract_text_to_file whose output path is an existing
\* directory never rasterizes or OCRs a page
C25_OutputPathValidatedBeforeOCR ==
    (IsToFile /\ output_is_dir) => (raster_page = 0 /\ ocr_page = 0)

(***************************************************************************)
(* C26: document handles are closed on every exit.                         *)
(***************************************************************************)
\* C26: when a call that opened its input document has ended (returned or
\* raised, in the page loop or while saving), the input document is closed,
\* and for create_searchable_pdf the output document is closed too
C26_HandlesClosedOnEveryExit ==
    (Done /\ Opened) =>
        /\ input_doc = "closed"
        /\ IsCreate => output_doc = "closed"

(***************************************************************************)
(* C27: a create_searchable_pdf call that fails a precondition check       *)
(* leaves the filesystem unchanged.                                        *)
(***************************************************************************)
\* C27: a call that ended with a precondition failure (engine unavailable,
\* input not found, output path rejected, font not found) has not created the
\* output path's parent directory and has written no output
C27_FailedPreconditionLeavesFilesystem ==
    (IsCreate /\ Done /\ outcome \in PreconditionFailures) =>
        (~parent_created /\ ~output_written)

(***************************************************************************)
(* C28: temporary files of the /convert endpoint (checked under SpecHTTP). *)
(***************************************************************************)
RequestFinished == http_pc = "done"

\* C28: when a request is finished, with any outcome, none of the temporary
\* files the handler created exists any more, and a request with a content
\* type other than PDF was answered 400 without any temporary file created
C28_TempFilesDeletedOnEveryOutcome ==
    RequestFinished =>
        /\ \A role \in http_created : <<http_request, role>> \notin tmp_files
        /\ content_type # "application/pdf" => (http_status = 400 /\ http_created = {})

(***************************************************************************)
(* C29, C30: the threads of a desktop workspace (checked under SpecDesk).  *)
(***************************************************************************)
\* C29: whatever the interleaving of _cancel_running_task with the cleanup
\* of the worker thread, _cancel_running_task never calls a method on None
C29_CancelNeverCallsMethodOnNone ==
    "_cancel_running_task" \notin ui_errors

StartPastGuard == ui_pc \in {"start_busy", "start_thread", "start_start"}

\* C30: at most one worker thread is alive, every task was given the event
\* created for its own run, and a start request that created an event or a
\* worker was not made while a worker was alive
C30_OneWorkerWithItsOwnEvent ==
    /\ Cardinality(alive) <= 1
    /\ \A r \in Runs : task_event[r] # 0 - 1 => task_event[r] = r
    /\ StartPastGuard => alive = {}

====
